---- MODULE Spec2Model ----
(***************************************************************************)
(* A model of pySIP's second order RC model TwTi_RoRiAwAicv                *)
(* (bopt/statespace/rc/twti_roriawaicv.py) and of the frequentist          *)
(* regressor FreqRegressor (pysip/regressors/frequentist.py).              *)
(*                                                                         *)
(* Python floats are modelled by exact rationals <<num, den>> in the RC    *)
(* model and by integers in the regressor part.  numpy arrays are          *)
(* functions over 0-based index ranges, as in the source.                  *)
(***************************************************************************)
EXTENDS Integers, Sequences, FiniteSets, TLC

VARIABLES
    \* ---- TwTi_RoRiAwAicv ----
    theta,      \* self.parameters.theta: the values, in declaration order
    A, B, C, D, Q, R, x0, P0,           \* the continuous matrices
    dA, dB, dQ, dR, dx0, dP0,           \* the derivative maps, keyed by name
    done,       \* the one-time steps already executed
    fresh,      \* the per-evaluation steps executed since theta was set
    written,    \* the derivative entries assigned so far: <<map, p, i, j>>
    \* ---- FreqRegressor: eval_residuals, estimate_states,
    \*      eval_log_likelihood, predict ----
    ss,         \* self.ss: the regressor's state-space model
    rpc,        \* "idle", or "returned" once a method has come back
    call,       \* the method invoked last and its arguments
    ret,        \* what the caller received: a value or a raised error
    trace,      \* what the call did below the regressor
    \* ---- FreqRegressor.fit ----
    dicts,      \* the dictionary objects: the caller's and fit's own
    callerHas,  \* the caller passed a dictionary (not None)
    atCall,     \* what the caller's dictionary held when the caller built it
    options,    \* the object fit's local name `options` refers to
    fpc,        \* where fit is: idle, minimize, finish, returned, raised
    initv,      \* fit's local `init`
    hpdv,       \* fit's local `hpd`
    eta,        \* self.parameters.eta_free, the optimizer's iterate
    nit,        \* the iterations minimize has made
    evals,      \* the evaluations minimize has made: eta, value, gradient
    summary     \* self.summary_

modelVars == <<theta, A, B, C, D, Q, R, x0, P0, dA, dB, dQ, dR, dx0, dP0,
               done, fresh, written>>

regVars == <<ss, rpc, call, ret, trace>>

fitVars == <<dicts, callerHas, atCall, options, fpc, initv, hpdv, eta, nit,
             evals, summary>>

vars == <<modelVars, regVars, fitVars>>

otherThanModel == <<regVars, fitVars>>
otherThanRegressor == <<modelVars, fitVars>>
otherThanFit == <<modelVars, regVars>>

----------------------------------------------------------------------------
(* Exact rationals *)

Abs(n) == IF n < 0 THEN -n ELSE n

RECURSIVE GCD(_, _)
GCD(a, b) == IF b = 0 THEN a ELSE GCD(b, a % b)

\* n / d in lowest terms with a positive denominator (d # 0)
Frac(n, d) ==
    LET g == GCD(Abs(n), Abs(d))
        s == IF d < 0 THEN -1 ELSE 1
    IN  <<(s * n) \div g, (s * d) \div g>>

Zero == <<0, 1>>
One == <<1, 1>>

Zeros(r, c) == [i \in 0..(r - 1) |-> [j \in 0..(c - 1) |-> Zero]]

----------------------------------------------------------------------------
(* The declaration of the model *)

\* The scale factors self.sC and self.sX of the RC model base class.
sC == 2
sX == 3

\* The names of `params`, in declaration order.
params ==
    <<"Ro", "Ri", "Cw", "Ci", "Aw", "Ai", "cv", "sigw_w", "sigw_i", "sigv",
      "x0_w", "x0_i", "sigx0_w", "sigx0_i">>

Names == {params[k] : k \in 1..Len(params)}

nx == 2     \* len(states)
nu == 4     \* len(inputs)
ny == 1     \* len(outputs)

\* The tuple of names on the left of the unpacking in update_state_space_model.
ussm_names_swapped ==
    <<"Ro", "Ri", "Ci", "Cw", "Aw", "Ai", "cv", "sigw_w", "sigw_i", "sigv",
      "x0_w", "x0_i", "sigx0_w", "sigx0_i">>

ussm_names ==
    <<"Ro", "Ri", "Cw", "Ci", "Aw", "Ai", "cv", "sigw_w", "sigw_i", "sigv",
      "x0_w", "x0_i", "sigx0_w", "sigx0_i">>

\* The tuple of names on the left of the unpacking in update_jacobian.
jac_names == <<"Ro", "Ri", "Cw", "Ci", "Aw", "Ai", "cv">>

\* Positional unpacking (n_1, ..., n_k, *_) = values: n_i is bound to values[i].
Bind(names, values) ==
    [n \in {names[k] : k \in 1..Len(names)} |->
        values[CHOOSE k \in 1..Len(names) : names[k] = n]]

\* The value of the parameter declared under name n.
IndexOf(n) == CHOOSE k \in 1..Len(params) : params[k] = n
DeclaredEnv(th) == [n \in Names |-> th[IndexOf(n)]]

----------------------------------------------------------------------------
(* The parameter vectors an evaluation may be asked for *)

MaxDelta == 2

Base == <<2, 3, 4, 5, 6, 7, 8, 9, 10, 11, 12, 13, 14, 15>>

Shift(th, k, d) == [th EXCEPT ![k] = th[k] + d]

\* Base with every parameter raised by d, and Base with one parameter raised.
ThetaSet ==
    {[k \in 1..Len(params) |-> Base[k] + d] : d \in 0..MaxDelta}
    \cup {Shift(Base, k, 1) : k \in 1..Len(params)}

----------------------------------------------------------------------------
(* update_state_space_model: the entries as functions of the bound names *)

A_of(e) ==
    [i \in 0..1 |-> [j \in 0..1 |->
        IF i = 0 /\ j = 0
            THEN Frac(-(e["Ro"] + e["Ri"]), e["Cw"] * e["Ri"] * e["Ro"] * sC)
        ELSE IF i = 0 /\ j = 1 THEN Frac(1, e["Cw"] * e["Ri"] * sC)
        ELSE IF i = 1 /\ j = 0 THEN Frac(1, e["Ci"] * e["Ri"] * sC)
        ELSE Frac(-1, e["Ci"] * e["Ri"] * sC)]]

B_upd(b, e) ==
    [b EXCEPT ![0][0] = Frac(1, e["Cw"] * e["Ro"] * sC),
              ![0][1] = Frac(e["Aw"], e["Cw"] * sC),
              ![1][1] = Frac(e["Ai"], e["Ci"] * sC),
              ![1][2] = Frac(1, e["Ci"] * sC),
              ![1][3] = Frac(e["cv"], e["Ci"] * sC)]

Q_upd(q, e) ==
    [q EXCEPT ![0][0] = Frac(e["sigw_w"], 1), ![1][1] = Frac(e["sigw_i"], 1)]

R_upd(r, e) == [r EXCEPT ![0][0] = Frac(e["sigv"], 1)]

x0_upd(x, e) ==
    [x EXCEPT ![0][0] = Frac(e["x0_w"] * sX, 1),
              ![1][0] = Frac(e["x0_i"] * sX, 1)]

P0_upd(p, e) ==
    [p EXCEPT ![0][0] = Frac(e["sigx0_w"], 1),
              ![1][1] = Frac(e["sigx0_i"], 1)]

(* update_jacobian: the entries it assigns *)

dA_upd(d, e) ==
    [d EXCEPT
        !["Ro"][0][0] = Frac(1, e["Cw"] * e["Ro"] * e["Ro"] * sC),
        !["Ri"] = [i \in 0..1 |-> [j \in 0..1 |->
            IF i = 0 /\ j = 0 THEN Frac(1, e["Cw"] * e["Ri"] * e["Ri"] * sC)
            ELSE IF i = 0 /\ j = 1
                THEN Frac(-1, e["Cw"] * e["Ri"] * e["Ri"] * sC)
            ELSE IF i = 1 /\ j = 0
                THEN Frac(-1, e["Ci"] * e["Ri"] * e["Ri"] * sC)
            ELSE Frac(1, e["Ci"] * e["Ri"] * e["Ri"] * sC)]],
        !["Cw"][0] = [j \in 0..1 |->
            IF j = 0
                THEN Frac(e["Ro"] + e["Ri"],
                          e["Cw"] * e["Cw"] * e["Ri"] * e["Ro"] * sC)
            ELSE Frac(-1, e["Cw"] * e["Cw"] * e["Ri"] * sC)],
        !["Ci"][1] = [j \in 0..1 |->
            IF j = 0 THEN Frac(-1, e["Ci"] * e["Ci"] * e["Ri"] * sC)
            ELSE Frac(1, e["Ci"] * e["Ci"] * e["Ri"] * sC)]]

\* dB_upd with the assignment to dB['cv'][1, 3] left out.
dB_upd_without_cv(d, e) ==
    [d EXCEPT
        !["Ro"][0][0] = Frac(-1, e["Cw"] * e["Ro"] * e["Ro"] * sC),
        !["Cw"][0][0] = Frac(-1, e["Cw"] * e["Cw"] * e["Ro"] * sC),
        !["Cw"][0][1] = Frac(-e["Aw"], e["Cw"] * e["Cw"] * sC),
        !["Ci"][1][1] = Frac(-e["Ai"], e["Ci"] * e["Ci"] * sC),
        !["Ci"][1][2] = Frac(-1, e["Ci"] * e["Ci"] * sC),
        !["Ci"][1][3] = Frac(-e["cv"], e["Ci"] * e["Ci"] * sC),
        !["Aw"][0][1] = Frac(1, e["Cw"] * sC),
        !["Ai"][1][1] = Frac(1, e["Ci"] * sC)]

dB_upd(d, e) ==
    [d EXCEPT
        !["Ro"][0][0] = Frac(-1, e["Cw"] * e["Ro"] * e["Ro"] * sC),
        !["Cw"][0][0] = Frac(-1, e["Cw"] * e["Cw"] * e["Ro"] * sC),
        !["Cw"][0][1] = Frac(-e["Aw"], e["Cw"] * e["Cw"] * sC),
        !["Ci"][1][1] = Frac(-e["Ai"], e["Ci"] * e["Ci"] * sC),
        !["Ci"][1][2] = Frac(-1, e["Ci"] * e["Ci"] * sC),
        !["Ci"][1][3] = Frac(-e["cv"], e["Ci"] * e["Ci"] * sC),
        !["Aw"][0][1] = Frac(1, e["Cw"] * sC),
        !["Ai"][1][1] = Frac(1, e["Ci"] * sC),
        !["cv"][1][3] = Frac(1, e["Ci"] * sC)]

\* The derivative entries update_jacobian assigns.
jac_writes ==
    {<<"dA", "Ro", 0, 0>>}
    \cup {<<"dA", "Ri", i, j>> : i \in 0..1, j \in 0..1}
    \cup {<<"dA", "Cw", 0, j>> : j \in 0..1}
    \cup {<<"dA", "Ci", 1, j>> : j \in 0..1}
    \cup {<<"dB", "Ro", 0, 0>>}
    \cup {<<"dB", "Cw", 0, j>> : j \in 0..1}
    \cup {<<"dB", "Ci", 1, j>> : j \in 1..3}
    \cup {<<"dB", "Aw", 0, 1>>, <<"dB", "Ai", 1, 1>>, <<"dB", "cv", 1, 3>>}

\* The derivative entries set_jacobian assigns.
set_jacobian_writes ==
    {<<"dQ", "sigw_w", 0, 0>>, <<"dQ", "sigw_i", 1, 1>>,
     <<"dR", "sigv", 0, 0>>,
     <<"dx0", "x0_w", 0, 0>>, <<"dx0", "x0_i", 1, 0>>,
     <<"dP0", "sigx0_w", 0, 0>>, <<"dP0", "sigx0_i", 1, 1>>}

----------------------------------------------------------------------------
(* The state after construction: every matrix and derivative is zero. *)

InitModel ==
    /\ theta = Base
    /\ A = Zeros(nx, nx) /\ B = Zeros(nx, nu)
    /\ C = Zeros(ny, nx) /\ D = Zeros(ny, nu)
    /\ Q = Zeros(nx, nx) /\ R = Zeros(ny, ny)
    /\ x0 = Zeros(nx, 1) /\ P0 = Zeros(nx, nx)
    /\ dA = [n \in Names |-> Zeros(nx, nx)]
    /\ dB = [n \in Names |-> Zeros(nx, nu)]
    /\ dQ = [n \in Names |-> Zeros(nx, nx)]
    /\ dR = [n \in Names |-> Zeros(ny, ny)]
    /\ dx0 = [n \in Names |-> Zeros(nx, 1)]
    /\ dP0 = [n \in Names |-> Zeros(nx, nx)]
    /\ done = {}
    /\ fresh = {}
    /\ written = {}

\* The optimizer (or the user) assigns a parameter vector.
SetTheta ==
    \E th \in ThetaSet :
        /\ th # theta
        /\ theta' = th
        /\ fresh' = {}
        /\ UNCHANGED <<A, B, C, D, Q, R, x0, P0, dA, dB, dQ, dR, dx0, dP0,
                       done, written>>
        /\ UNCHANGED otherThanModel

set_constant ==
    /\ C' = [C EXCEPT ![0][1] = One]
    /\ done' = done \cup {"set_constant"}
    /\ UNCHANGED <<theta, A, B, D, Q, R, x0, P0, dA, dB, dQ, dR, dx0, dP0,
                   fresh, written>>
    /\ UNCHANGED otherThanModel

set_jacobian ==
    /\ dQ' = [dQ EXCEPT !["sigw_w"][0][0] = One, !["sigw_i"][1][1] = One]
    /\ dR' = [dR EXCEPT !["sigv"][0][0] = One]
    /\ dx0' = [dx0 EXCEPT !["x0_w"][0][0] = Frac(sX, 1),
                          !["x0_i"][1][0] = Frac(sX, 1)]
    /\ dP0' = [dP0 EXCEPT !["sigx0_w"][0][0] = One, !["sigx0_i"][1][1] = One]
    /\ written' = written \cup set_jacobian_writes
    /\ done' = done \cup {"set_jacobian"}
    /\ UNCHANGED <<theta, A, B, C, D, Q, R, x0, P0, dA, dB, fresh>>
    /\ UNCHANGED otherThanModel

\* What update_state_space_model leaves alone.
ussm_frame_writes_C ==
    /\ C' = [C EXCEPT ![0][0] = One, ![0][1] = Zero]
    /\ UNCHANGED <<D, dA, dB, dQ, dR, dx0, dP0>>

ussm_frame == UNCHANGED <<C, D, dA, dB, dQ, dR, dx0, dP0>>

update_state_space_model ==
    LET e == Bind(ussm_names, theta) IN
    /\ A' = A_of(e)
    /\ B' = B_upd(B, e)
    /\ Q' = Q_upd(Q, e)
    /\ R' = R_upd(R, e)
    /\ x0' = x0_upd(x0, e)
    /\ P0' = P0_upd(P0, e)
    /\ ussm_frame
    /\ fresh' = fresh \cup {"update_state_space_model"}
    /\ UNCHANGED <<theta, done, written>>
    /\ UNCHANGED otherThanModel

\* What update_jacobian leaves alone.
jac_frame == UNCHANGED <<A, B, C, D, Q, R, x0, P0, dQ, dR, dx0, dP0>>

update_jacobian ==
    LET e == Bind(jac_names, theta) IN
    /\ dA' = dA_upd(dA, e)
    /\ dB' = dB_upd(dB, e)
    /\ written' = written \cup jac_writes
    /\ jac_frame
    /\ fresh' = fresh \cup {"update_jacobian"}
    /\ UNCHANGED <<theta, done>>
    /\ UNCHANGED otherThanModel

NextModel ==
    \/ SetTheta
    \/ set_constant
    \/ set_jacobian
    \/ update_state_space_model
    \/ update_jacobian

----------------------------------------------------------------------------
(* Properties of the RC model *)

\* The matrices update_state_space_model leaves in a freshly constructed
\* model when the parameter vector is th.
Built(M, th) ==
    LET e == Bind(ussm_names, th) IN
    CASE M = "A" -> A_of(e)
      [] M = "B" -> B_upd(Zeros(nx, nu), e)
      [] M = "Q" -> Q_upd(Zeros(nx, nx), e)
      [] M = "R" -> R_upd(Zeros(ny, ny), e)
      [] M = "x0" -> x0_upd(Zeros(nx, 1), e)
      [] M = "P0" -> P0_upd(Zeros(nx, nx), e)

Matrices == {"A", "B", "Q", "R", "x0", "P0"}
Rows(M) == IF M = "R" THEN ny ELSE nx
Cols(M) == IF M = "B" THEN nu ELSE IF M = "R" THEN ny
           ELSE IF M = "x0" THEN 1 ELSE nx

\* The derivative map of matrix M, and its name in `written`.
DMap(M) ==
    IF M = "A" THEN dA ELSE IF M = "B" THEN dB ELSE IF M = "Q" THEN dQ
    ELSE IF M = "R" THEN dR ELSE IF M = "x0" THEN dx0 ELSE dP0
DName(M) ==
    IF M = "A" THEN "dA" ELSE IF M = "B" THEN "dB" ELSE IF M = "Q" THEN "dQ"
    ELSE IF M = "R" THEN "dR" ELSE IF M = "x0" THEN "dx0" ELSE "dP0"

\* Entry (i, j) of M changes when parameter p alone is changed.
Depends(M, p, i, j) ==
    Built(M, theta)[i][j] # Built(M, Shift(theta, IndexOf(p), 1))[i][j]

\* C3: both positional unpackings of parameters.theta bind every name to the
\* index the name has in the declared params list, so every matrix entry and
\* every derivative entry is computed from the value of the parameter it names.
C3_ParameterOrder ==
    /\ \A k \in 1..Len(ussm_names) : ussm_names[k] = params[k]
    /\ \A k \in 1..Len(jac_names) : jac_names[k] = params[k]
    /\ "update_state_space_model" \in fresh =>
        LET e == DeclaredEnv(theta) IN
        /\ A = A_of(e)
        /\ B = B_upd(Zeros(nx, nu), e)
        /\ Q = Q_upd(Zeros(nx, nx), e)
        /\ R = R_upd(Zeros(ny, ny), e)
        /\ x0 = x0_upd(Zeros(nx, 1), e)
        /\ P0 = P0_upd(Zeros(nx, nx), e)
    /\ "update_jacobian" \in fresh =>
        LET e == DeclaredEnv(theta) IN
        /\ dA = dA_upd([n \in Names |-> Zeros(nx, nx)], e)
        /\ dB = dB_upd([n \in Names |-> Zeros(nx, nu)], e)

C3_Witness ==
    /\ theta # Base
    /\ fresh = {"update_state_space_model", "update_jacobian"}
    /\ Q[0][0] = <<theta[8], 1>>
    /\ dB["cv"][1][3] = Frac(1, theta[4] * sC)

\* C4: once set_constant has run, C keeps the value set_constant gave it
\* (C[0,1] = 1, every other entry as constructed) and D keeps its constructed
\* value, whatever updates of the matrices and derivatives follow.
C4_ConstantsUntouched ==
    /\ D = Zeros(ny, nu)
    /\ C = IF "set_constant" \in done
             THEN [Zeros(ny, nx) EXCEPT ![0][1] = One]
             ELSE Zeros(ny, nx)

C4_Witness ==
    /\ "set_constant" \in done
    /\ fresh = {"update_state_space_model", "update_jacobian"}
    /\ theta # Base
    /\ A # Zeros(nx, nx)
    /\ C[0][1] = One

\* C9: after set_jacobian and update_jacobian, a derivative entry dM[p][i,j]
\* has been written exactly when the entry M[i,j] assigned by
\* update_state_space_model depends on p; the written entries are the
\* non-zero ones, every other entry is still zero.
C9_DerivativeSupport ==
    ("set_jacobian" \in done /\ "update_jacobian" \in fresh) =>
        \A M \in Matrices : \A p \in Names :
            \A i \in 0..(Rows(M) - 1) : \A j \in 0..(Cols(M) - 1) :
                /\ (<<DName(M), p, i, j>> \in written) <=> Depends(M, p, i, j)
                /\ (<<DName(M), p, i, j>> \in written)
                       <=> (DMap(M)[p][i][j] # Zero)

C9_Witness ==
    /\ "set_jacobian" \in done
    /\ "update_jacobian" \in fresh
    /\ theta # Base
    /\ <<"dB", "cv", 1, 3>> \in written
    /\ Depends("B", "cv", 1, 3)
    /\ ~Depends("B", "cv", 1, 1)
    /\ dB["cv"][1][1] = Zero

----------------------------------------------------------------------------
(* FreqRegressor: the diagnostic methods                                   *)
(*                                                                         *)
(* The regressor's model self.ss is a one-state integrator (dx = B u dt +  *)
(* Q dw, y = C x + R v), so that its exact discretization has Ad = 1; the  *)
(* sampling intervals are perfect squares, which keeps the square root of  *)
(* the discretized process noise exact.  Where the filter divides or takes *)
(* a square root the result is rounded down, as floating point rounds.     *)
(* Sequences are 1-based: step k of the source is element k + 1.           *)
(***************************************************************************)

MaxSteps == 3

NoneV == [some |-> FALSE, v |-> 0]
Some(v) == [some |-> TRUE, v |-> v]

\* An output sample: the missing-value marker, or a value.
NaN == [nan |-> TRUE, v |-> 0]
Val(v) == [nan |-> FALSE, v |-> v]

DtVals == {1, 4}
YVals == {NaN, Val(0), Val(5)}

\* The frames a caller may pass: up to MaxSteps rows, already aligned.
Series ==
    UNION {[dt : [1..n -> DtVals], y : [1..n -> YVals]] : n \in 0..MaxSteps}

ArgX0 == {NoneV, Some(7)}
ArgP0 == {NoneV, Some(3)}
ArgTnew == {NoneV, Some(1)}

\* The models a regressor may be built on.
Models ==
    {[ny |-> 1, B |-> 1, C |-> 1, Q |-> 1, R |-> 1, x0 |-> 0, P0 |-> 2],
     [ny |-> 1, B |-> 1, C |-> 1, Q |-> 0, R |-> 0, x0 |-> 0, P0 |-> 0],
     [ny |-> 2, B |-> 1, C |-> 1, Q |-> 1, R |-> 1, x0 |-> 0, P0 |-> 2]}

\* The element of a singleton: TheOne({f(v) : v \in {e}}) is f(e) with e
\* evaluated once.
TheOne(S) == CHOOSE z \in S : TRUE

ISqrt(n) == CHOOSE r \in 0..n : r * r <= n /\ (r + 1) * (r + 1) > n

RECURSIVE ILog(_)
ILog(n) == IF n <= 1 THEN 0 ELSE 1 + ILog(n \div 2)

Raise(e) == [kind |-> "raise", err |-> e, val |-> <<>>]
Return(v) == [kind |-> "return", err |-> "none", val |-> v]
NoRet == [kind |-> "none", err |-> "none", val |-> <<>>]

\* _prepare_data(df, inputs, outputs, tnew): the aligned arrays; the new time
\* instants are appended as rows without an observation.
prepare_data(df, tnew) ==
    LET more == IF tnew.some THEN tnew.v ELSE 0
        n == Len(df.dt) + more
    IN  [dt |-> [i \in 1..n |-> IF i <= Len(df.dt) THEN df.dt[i] ELSE 1],
         u |-> [i \in 1..n |-> 1],
         u1 |-> [i \in 1..n |-> 1],
         y |-> [i \in 1..n |-> IF i <= Len(df.y) THEN df.y[i] ELSE NaN],
         index_back |-> [i \in 1..n |-> i]]

(* The discretizer *)

Discretize(m, dt) ==
    [dt |-> dt, Ad |-> 1, Bd |-> m.B * dt, Qd |-> m.Q * ISqrt(dt),
     C |-> m.C, R |-> m.R]

\* The place of interval d in the cache, 0 when it is not cached.
CacheFind_never(keys, d) == 0

CacheFind(keys, d) ==
    IF \E k \in 1..Len(keys) : keys[k] = d
        THEN CHOOSE k \in 1..Len(keys) : keys[k] = d
        ELSE 0

RECURSIVE DiscretizeFrom(_, _, _, _)
DiscretizeFrom(m, dt, i, acc) ==
    IF i > Len(dt) THEN acc
    ELSE TheOne({
         IF at # 0
            THEN DiscretizeFrom(m, dt, i + 1,
                                [acc EXCEPT !.index = Append(@, at)])
            ELSE DiscretizeFrom(m, dt, i + 1,
                    [keys |-> Append(acc.keys, dt[i]),
                     ssm |-> Append(acc.ssm, Discretize(m, dt[i])),
                     index |-> Append(acc.index, Len(acc.ssm) + 1),
                     ncalls |-> acc.ncalls + 1])
         : at \in {CacheFind(acc.keys, dt[i])}})

\* ss.get_discrete_ssm(dt): the discretized models and the index array.
get_discrete_ssm(m, dt) ==
    DiscretizeFrom(m, dt, 1,
                   [keys |-> <<>>, ssm |-> <<>>, index |-> <<>>, ncalls |-> 0])

(* The square-root Kalman filter *)

\* The triangularization of the stacked column (a, b): its pivot.
Tri(a, b) == ISqrt(a * a + b * b)

Predict(d, x, S, uk, u1k) ==
    [xp |-> d.Ad * x + d.Bd * uk + (d.Bd * (u1k - uk)) \div 2,
     Sp |-> Tri(d.Ad * S, d.Qd)]

Update(d, pr, yk) ==
    TheOne({
        IF sy <= 0
            THEN [err |-> "NumericalInstabilityError",
                  xf |-> pr.xp, Sf |-> pr.Sp, res |-> 0, std |-> 0]
            ELSE [err |-> "none",
                  xf |-> pr.xp + (d.C * pr.Sp * pr.Sp * (yk.v - d.C * pr.xp))
                                     \div (sy * sy),
                  Sf |-> (pr.Sp * d.R) \div sy,
                  res |-> (yk.v - d.C * pr.xp) \div sy,
                  std |-> sy]
        : sy \in {Tri(d.C * pr.Sp, d.R)}})

\* FilterStep with the update applied whether or not an observation exists.
FilterStep_always_updates(d, x, S, uk, u1k, yk) ==
    TheOne({TheOne({
        [xp |-> pr.xp, Sp |-> pr.Sp, xf |-> up.xf, Sf |-> up.Sf,
         obs |-> ~yk.nan, res |-> up.res, std |-> up.std, err |-> up.err]
        : up \in {Update(d, pr, yk)}})
        : pr \in {Predict(d, x, S, uk, u1k)}})

\* One step of the forward pass: predict, then update if an observation exists.
FilterStep(d, x, S, uk, u1k, yk) ==
    TheOne({
        IF yk.nan
            THEN [xp |-> pr.xp, Sp |-> pr.Sp, xf |-> pr.xp, Sf |-> pr.Sp,
                  obs |-> FALSE, res |-> 0, std |-> 0, err |-> "none"]
            ELSE TheOne({
                [xp |-> pr.xp, Sp |-> pr.Sp, xf |-> up.xf, Sf |-> up.Sf,
                 obs |-> TRUE, res |-> up.res, std |-> up.std,
                 err |-> up.err]
                : up \in {Update(d, pr, yk)}})
        : pr \in {Predict(d, x, S, uk, u1k)}})

RECURSIVE FilterFrom(_, _, _, _, _, _, _, _, _)
FilterFrom(ssm, index, u, u1, y, k, x, S, acc) ==
    IF k > Len(y) THEN acc
    ELSE TheOne({
         IF st.err # "none" THEN [acc EXCEPT !.err = st.err]
         ELSE FilterFrom(ssm, index, u, u1, y, k + 1, st.xf, st.Sf,
                [steps |-> Append(acc.steps, st),
                 err |-> "none",
                 nll |-> acc.nll + (IF st.obs
                            THEN ILog(st.std) + (st.res * st.res) \div 2
                            ELSE 0)])
         : st \in {FilterStep(ssm[index[k]], x, S, u[k], u1[k], y[k])}})

\* filter.filtering(ssm, index, u, u1, y) started from `start`.
filtering(ssm, index, u, u1, y, start) ==
    FilterFrom(ssm, index, u, u1, y, 1, start.x0, start.P0,
               [steps |-> <<>>, err |-> "none", nll |-> 0])

\* The backward fixed-interval smoothing recursion over the stored steps.
RECURSIVE SmoothFrom(_, _, _, _, _)
SmoothFrom(steps, ssm, index, k, acc) ==
    IF k < 1 THEN acc
    ELSE TheOne({
         LET nxt == steps[k + 1]
             xs == steps[k].xf + G * (acc.x[1] - nxt.xp)
             Ps == steps[k].Sf * steps[k].Sf
                     + G * G * (acc.P[1] - nxt.Sp * nxt.Sp)
         IN  SmoothFrom(steps, ssm, index, k - 1,
                        [x |-> <<xs>> \o acc.x,
                         P |-> <<IF Ps < 0 THEN 0 ELSE Ps>> \o acc.P])
         : G \in {IF steps[k + 1].Sp = 0 THEN 0
                  ELSE (steps[k].Sf * steps[k].Sf * ssm[index[k + 1]].Ad)
                           \div (steps[k + 1].Sp * steps[k + 1].Sp)}})

smoothing(steps, ssm, index) ==
    LET n == Len(steps) IN
    IF n = 0 THEN [x |-> <<>>, P |-> <<>>]
    ELSE SmoothFrom(steps, ssm, index, n - 1,
                    [x |-> <<steps[n].xf>>,
                     P |-> <<steps[n].Sf * steps[n].Sf>>])

(* What a call did below the regressor *)

EmptyTrace ==
    [prepare |-> 0, getssm |-> 0, discretize |-> 0, filtering |-> 0,
     dt |-> <<>>, y |-> <<>>, ssm |-> <<>>, index |-> <<>>,
     start |-> [x0 |-> 0, P0 |-> 0], steps |-> <<>>, err |-> "none"]

MkTrace(data, g, pass, start) ==
    [prepare |-> 1, getssm |-> 1, discretize |-> g.ncalls, filtering |-> 1,
     dt |-> data.dt, y |-> data.y, ssm |-> g.ssm, index |-> g.index,
     start |-> start, steps |-> pass.steps, err |-> pass.err]

\* The initial state a pass starts from when the caller's x0 and P0 reach the
\* filter, and when they do not.
StartGiven(m, x0a, P0a) ==
    [x0 |-> IF x0a.some THEN x0a.v ELSE m.x0,
     P0 |-> IF P0a.some THEN P0a.v ELSE m.P0]

StartOfModel(m) == [x0 |-> m.x0, P0 |-> m.P0]

\* BaseRegressor._estimate_states(dt, u, u1, y, x0, P0, smooth)
estimate_states_impl(m, data, x0a, P0a, smooth) ==
    TheOne({TheOne({
        LET sm == smoothing(pass.steps, g.ssm, g.index)
            n == Len(pass.steps)
        IN  [err |-> pass.err,
             x |-> IF smooth THEN sm.x
                   ELSE [k \in 1..n |-> pass.steps[k].xf],
             P |-> IF smooth THEN sm.P
                   ELSE [k \in 1..n |->
                            pass.steps[k].Sf * pass.steps[k].Sf],
             trace |-> MkTrace(data, g, pass, StartGiven(m, x0a, P0a))]
        : pass \in {filtering(g.ssm, g.index, data.u, data.u1, data.y,
                              StartGiven(m, x0a, P0a))}})
        : g \in {get_discrete_ssm(m, data.dt)}})

(* The methods: what the caller receives, and the trace of the call *)

\* The pass of eval_residuals and of eval_log_likelihood: the filter is
\* called with (ssm, index, u, u1, y) and starts from the model's own x0, P0.
run_filter(m, data) ==
    TheOne({TheOne({
        [pass |-> pass,
         trace |-> MkTrace(data, g, pass, StartOfModel(m))]
        : pass \in {filtering(g.ssm, g.index, data.u, data.u1, data.y,
                              StartOfModel(m))}})
        : g \in {get_discrete_ssm(m, data.dt)}})

\* eval_residuals with the filter's error caught and NaN returned.
eval_residuals_outcome_catch(m, df, x0a, P0a) ==
    TheOne({
        [trace |-> run.trace,
         ret |-> IF run.pass.err # "none"
                    THEN Return(<<[k \in 1..Len(df.y) |-> NaN],
                                  [k \in 1..Len(df.y) |-> NaN]>>)
                    ELSE Return(
                      <<[k \in 1..Len(run.pass.steps) |->
                            IF run.pass.steps[k].obs
                                THEN Val(run.pass.steps[k].res) ELSE NaN],
                        [k \in 1..Len(run.pass.steps) |->
                            IF run.pass.steps[k].obs
                                THEN Val(run.pass.steps[k].std) ELSE NaN]>>)]
        : run \in {run_filter(m, prepare_data(df, NoneV))}})

eval_residuals_outcome(m, df, x0a, P0a) ==
    TheOne({
        [trace |-> run.trace,
         ret |-> IF run.pass.err # "none" THEN Raise(run.pass.err)
                 ELSE Return(
                    <<[k \in 1..Len(run.pass.steps) |->
                          IF run.pass.steps[k].obs
                              THEN Val(run.pass.steps[k].res) ELSE NaN],
                      [k \in 1..Len(run.pass.steps) |->
                          IF run.pass.steps[k].obs
                              THEN Val(run.pass.steps[k].std) ELSE NaN]>>)]
        : run \in {run_filter(m, prepare_data(df, NoneV))}})

estimate_states_outcome(m, df, x0a, P0a, smooth) ==
    TheOne({
        [trace |-> est.trace,
         ret |-> IF est.err # "none" THEN Raise(est.err)
                 ELSE Return(<<est.x, est.P>>)]
        : est \in {estimate_states_impl(m, prepare_data(df, NoneV),
                                        x0a, P0a, smooth)}})

eval_log_likelihood_outcome(m, df) ==
    TheOne({
        [trace |-> run.trace,
         ret |-> IF run.pass.err # "none" THEN Raise(run.pass.err)
                 ELSE Return(<<run.pass.nll>>)]
        : run \in {run_filter(m, prepare_data(df, NoneV))}})

\* The part of the estimates predict keeps: the rows of tnew.
KeepNew(xs, tnew) ==
    IF tnew.some
        THEN SubSeq(xs, Len(xs) - tnew.v + 1, Len(xs))
        ELSE xs

\* predict with the test of ss.ny made after the data has been prepared.
predict_outcome_late_check(m, df, tnew, x0a, P0a, smooth) ==
    TheOne({
        [trace |-> [EmptyTrace EXCEPT !.prepare = 1, !.dt = data.dt,
                                      !.y = data.y],
         ret |-> Raise("NotImplementedError")]
        : data \in {prepare_data(df, tnew)}})

predict_outcome(m, df, tnew, x0a, P0a, smooth) ==
    IF m.ny > 1
        THEN [trace |-> EmptyTrace, ret |-> Raise("NotImplementedError")]
    ELSE TheOne({
         LET x == KeepNew(est.x, tnew)
             P == KeepNew(est.P, tnew)
         IN  [trace |-> est.trace,
              ret |-> IF est.err # "none" THEN Raise(est.err)
                      ELSE Return(
                        <<[k \in 1..Len(x) |-> m.C * x[k]],
                          [k \in 1..Len(P) |->
                              ISqrt(m.C * P[k] * m.C) + m.R]>>)]
         : est \in {estimate_states_impl(m, prepare_data(df, tnew),
                                         x0a, P0a, smooth)}})

NoCall ==
    [method |-> "none", df |-> [dt |-> <<>>, y |-> <<>>], x0 |-> NoneV,
     P0 |-> NoneV, smooth |-> FALSE, tnew |-> NoneV]

InitRegressor ==
    /\ ss \in Models
    /\ rpc = "idle"
    /\ call = NoCall
    /\ ret = NoRet
    /\ trace = EmptyTrace

\* The filter pass is modelled for one output: the methods that run it
\* unconditionally are called on single-output models only.
eval_residuals ==
    /\ rpc = "idle"
    /\ ss.ny = 1
    /\ \E df \in Series, x0a \in ArgX0, P0a \in ArgP0 :
        LET out == eval_residuals_outcome(ss, df, x0a, P0a) IN
        /\ call' = [NoCall EXCEPT !.method = "eval_residuals", !.df = df,
                                  !.x0 = x0a, !.P0 = P0a]
        /\ trace' = out.trace
        /\ ret' = out.ret
    /\ rpc' = "returned"
    /\ UNCHANGED ss
    /\ UNCHANGED otherThanRegressor

estimate_states ==
    /\ rpc = "idle"
    /\ ss.ny = 1
    /\ \E df \in Series, x0a \in ArgX0, P0a \in ArgP0, smooth \in BOOLEAN :
        LET out == estimate_states_outcome(ss, df, x0a, P0a, smooth) IN
        /\ call' = [NoCall EXCEPT !.method = "estimate_states", !.df = df,
                                  !.x0 = x0a, !.P0 = P0a, !.smooth = smooth]
        /\ trace' = out.trace
        /\ ret' = out.ret
    /\ rpc' = "returned"
    /\ UNCHANGED ss
    /\ UNCHANGED otherThanRegressor

eval_log_likelihood ==
    /\ rpc = "idle"
    /\ ss.ny = 1
    /\ \E df \in Series :
        LET out == eval_log_likelihood_outcome(ss, df) IN
        /\ call' = [NoCall EXCEPT !.method = "eval_log_likelihood",
                                  !.df = df]
        /\ trace' = out.trace
        /\ ret' = out.ret
    /\ rpc' = "returned"
    /\ UNCHANGED ss
    /\ UNCHANGED otherThanRegressor

predict ==
    /\ rpc = "idle"
    /\ \E df \in Series, tnew \in ArgTnew, x0a \in ArgX0, P0a \in ArgP0,
          smooth \in BOOLEAN :
        LET out == predict_outcome(ss, df, tnew, x0a, P0a, smooth) IN
        /\ call' = [method |-> "predict", df |-> df, x0 |-> x0a,
                    P0 |-> P0a, smooth |-> smooth, tnew |-> tnew]
        /\ trace' = out.trace
        /\ ret' = out.ret
    /\ rpc' = "returned"
    /\ UNCHANGED ss
    /\ UNCHANGED otherThanRegressor

\* The caller takes the result; the regressor keeps nothing of the call.
Caller ==
    /\ rpc = "returned"
    /\ rpc' = "idle"
    /\ call' = NoCall
    /\ ret' = NoRet
    /\ trace' = EmptyTrace
    /\ UNCHANGED ss
    /\ UNCHANGED otherThanRegressor

NextRegressor ==
    \/ eval_residuals
    \/ estimate_states
    \/ eval_log_likelihood
    \/ predict
    \/ Caller

----------------------------------------------------------------------------
(* Properties of the diagnostic methods *)

\* C1: in a forward pass, at every step whose observation is missing the
\* update is skipped: the filtered mean and factor stored for the step are the
\* predicted mean and factor of the same step.
C1_MissingSkipsUpdate ==
    \A k \in 1..Len(trace.steps) :
        trace.y[k].nan =>
            /\ ~trace.steps[k].obs
            /\ trace.steps[k].xf = trace.steps[k].xp
            /\ trace.steps[k].Sf = trace.steps[k].Sp

C1_Witness ==
    /\ rpc = "returned"
    /\ call.method = "eval_residuals"
    /\ Len(trace.steps) = 3
    /\ ~trace.y[1].nan /\ ~trace.y[2].nan /\ trace.y[3].nan
    /\ trace.steps[1].xf # trace.steps[1].xp
    /\ trace.steps[2].Sf # trace.steps[2].Sp
    /\ trace.steps[3].xf = trace.steps[3].xp

\* C2: get_discrete_ssm(dt) returns one discretized model per distinct dt and
\* an index array as long as dt with ssm[index[i]] the discretization for
\* dt[i]; a repeated dt is not discretized again.
C2_OneDiscretizationPerDt ==
    trace.getssm = 1 =>
        LET distinct == {trace.dt[i] : i \in 1..Len(trace.dt)} IN
        /\ Len(trace.index) = Len(trace.dt)
        /\ Len(trace.ssm) = Cardinality(distinct)
        /\ trace.discretize = Cardinality(distinct)
        /\ \A i \in 1..Len(trace.dt) :
            /\ trace.index[i] \in 1..Len(trace.ssm)
            /\ trace.ssm[trace.index[i]] = Discretize(ss, trace.dt[i])

C2_Witness ==
    /\ rpc = "returned"
    /\ trace.dt = <<1, 4, 1>>
    /\ trace.index = <<1, 2, 1>>
    /\ Len(trace.ssm) = 2
    /\ trace.discretize = 2

\* C6 (as claimed): eval_residuals runs the filter from the initial mean x0
\* and the initial deviation P0 the caller gives, whenever they are given.
C6_ResidualsFromGivenStart ==
    (rpc = "returned" /\ call.method = "eval_residuals") =>
        /\ call.x0.some => trace.start.x0 = call.x0.v
        /\ call.P0.some => trace.start.P0 = call.P0.v

\* C7: predict on a model with more than one output fails with
\* NotImplementedError whatever the other arguments are, before the data is
\* prepared, a model discretized or the filter run.
C7_PredictMultiOutputFails ==
    (rpc = "returned" /\ call.method = "predict" /\ ss.ny > 1) =>
        /\ ret.kind = "raise"
        /\ ret.err = "NotImplementedError"
        /\ trace = EmptyTrace

C7_Witness ==
    /\ rpc = "returned"
    /\ call.method = "predict"
    /\ ss.ny > 1
    /\ Len(call.df.dt) = 3
    /\ call.tnew.some /\ call.x0.some /\ call.P0.some /\ call.smooth
    /\ ret.err = "NotImplementedError"

\* C8: an error raised below the regressor during eval_residuals,
\* estimate_states, eval_log_likelihood or predict reaches the caller as that
\* error; no value is returned in its place.
C8_ErrorsPropagate ==
    (rpc = "returned" /\ trace.err # "none") =>
        /\ ret.kind = "raise"
        /\ ret.err = trace.err

C8_Witness ==
    /\ rpc = "returned"
    /\ call.method = "eval_residuals"
    /\ trace.err = "NumericalInstabilityError"
    /\ Len(trace.steps) >= 1
    /\ ret.kind = "raise"

----------------------------------------------------------------------------
(* FreqRegressor.fit                                                       *)
(*                                                                         *)
(* Dictionaries are functions from their keys; the dictionary the caller   *)
(* holds and the one fit works on are two objects of `dicts`, and          *)
(* `options` names the one fit's local variable refers to.  One free       *)
(* parameter is fitted: eta is the unconstrained value, theta = eta^2 + 1  *)
(* the constrained one, and the negative log-posterior is a parabola in    *)
(* theta.                                                                  *)
(***************************************************************************)

MaxIter == 3

EmptyDict == [k \in {} |-> ""]

setdefault(d, k, v) ==
    IF k \in DOMAIN d THEN d
    ELSE [x \in DOMAIN d \cup {k} |-> IF x = k THEN v ELSE d[x]]

get(d, k, default) == IF k \in DOMAIN d THEN d[k] ELSE default

pop(d, k) == [x \in DOMAIN d \ {k} |-> d[x]]

OptionKeys == {"init", "hpd", "disp", "gtol"}

Allowed(k) ==
    IF k = "init" THEN {"fixed", "prior"}
    ELSE IF k = "hpd" THEN {"0.9"}
    ELSE IF k = "disp" THEN {"False"}
    ELSE {"1e-2"}

\* The dictionaries a caller may pass as `options`.
CallerDicts ==
    UNION {{d \in [K -> UNION {Allowed(k) : k \in OptionKeys}] :
                \A k \in K : d[k] \in Allowed(k)} : K \in SUBSET OptionKeys}

\* The transform theta = f(eta) and its derivative.
Transform(e) == e * e + 1
DTransform(e) == 2 * e

\* The negative log-posterior of theta and its derivative.
Nll(th) == (th - 5) * (th - 5)
DNll(th) == 2 * (th - 5)

\* BaseRegressor._eval_log_posterior(eta, *data): the value alone.
eval_log_posterior(e) == Nll(Transform(e))

\* BaseRegressor._eval_dlog_posterior(eta, *data): the value and the analytic
\* gradient with the Jacobian of the transform applied.
eval_dlog_posterior(e) ==
    <<Nll(Transform(e)), DNll(Transform(e)) * DTransform(e)>>

\* The arguments fit gives scipy.optimize.minimize.
fit_fun == "_eval_log_posterior"
fit_jac == "3-point"

\* scipy.optimize.minimize: the value and the gradient at an iterate.  With
\* jac=True fun returns the pair; with jac='3-point' the gradient is the central
\* difference of fun's values.
minimize_eval(fun, jac, e) ==
    IF jac = "True"
        THEN [eta |-> e, f |-> eval_dlog_posterior(e)[1],
              g |-> eval_dlog_posterior(e)[2], how |-> "analytic"]
        ELSE [eta |-> e, f |-> eval_log_posterior(e),
              g |-> (eval_log_posterior(e + 1) - eval_log_posterior(e - 1))
                        \div 2,
              how |-> "3-point"]

Sign(n) == IF n > 0 THEN 1 ELSE IF n < 0 THEN -1 ELSE 0

\* parameters.init_parameters(1, init, hpd): the current value when init is
\* 'fixed', a draw otherwise.
EtaFixed == {2}
EtaDraws == {1, 3}
init_parameters(init) == IF init = "fixed" THEN EtaFixed ELSE EtaDraws

\* fit's `options` when the caller's dictionary is used as it is.
fit_options_alias(ds, has) ==
    IF has THEN [dicts |-> ds, ref |-> "caller"]
    ELSE [dicts |-> [ds EXCEPT !.local = EmptyDict], ref |-> "local"]

\* fit's `options`: a new empty dictionary, or a copy of the caller's.
fit_options(ds, has) ==
    IF has THEN [dicts |-> [ds EXCEPT !.local = ds.caller], ref |-> "local"]
    ELSE [dicts |-> [ds EXCEPT !.local = EmptyDict], ref |-> "local"]

\* The defaults added and the keys removed, on the dictionary `options` names.
fit_entry(ds, has) ==
    LET o == fit_options(ds, has)
        d1 == setdefault(setdefault(o.dicts[o.ref], "disp", "True"),
                         "gtol", "1e-4")
        d2 == pop(d1, "init")
        d3 == pop(d2, "hpd")
    IN  [dicts |-> [o.dicts EXCEPT ![o.ref] = d3],
         ref |-> o.ref,
         init |-> get(d1, "init", "fixed"),
         hpd |-> get(d2, "hpd", "0.95")]

InitFit ==
    /\ dicts = [caller |-> EmptyDict, local |-> EmptyDict]
    /\ callerHas = FALSE
    /\ atCall = EmptyDict
    /\ options = "local"
    /\ fpc = "idle"
    /\ initv = "fixed"
    /\ hpdv = "0.95"
    /\ eta = 2
    /\ nit = 0
    /\ evals = <<>>
    /\ summary = <<>>

\* Lines 39-50, entered with the dictionaries ds: the options, the initial
\* eta, the data (ss.prepare_data fails on a frame without the columns).
FitEnter(ds, has) ==
    LET en == fit_entry(ds, has) IN
    /\ dicts' = en.dicts
    /\ options' = en.ref
    /\ initv' = en.init
    /\ hpdv' = en.hpd
    /\ eta' \in init_parameters(en.init)
    /\ \E columns_ok \in BOOLEAN :
        fpc' = IF columns_ok THEN "minimize" ELSE "raised"
    /\ nit' = 0
    /\ evals' = <<>>
    /\ summary' = <<>>

\* fit(df, outputs, inputs, options) with options None or a dictionary the
\* caller has just built.
fit ==
    /\ fpc = "idle"
    /\ \/ /\ callerHas' = FALSE
          /\ atCall' = EmptyDict
          /\ FitEnter([dicts EXCEPT !.caller = EmptyDict], FALSE)
       \/ \E d \in CallerDicts :
          /\ callerHas' = TRUE
          /\ atCall' = d
          /\ FitEnter([dicts EXCEPT !.caller = d], TRUE)
    /\ UNCHANGED otherThanFit

\* fit called again with the dictionary of the call before.
fit_again ==
    /\ fpc = "idle"
    /\ callerHas
    /\ FitEnter(dicts, TRUE)
    /\ UNCHANGED <<callerHas, atCall>>
    /\ UNCHANGED otherThanFit

\* One iteration of minimize: the value and gradient at the iterate, then a
\* step against the gradient, or the end of the search.
minimize ==
    /\ fpc = "minimize"
    /\ LET ev == minimize_eval(fit_fun, fit_jac, eta) IN
        /\ evals' = Append(evals, ev)
        /\ IF ev.g = 0 \/ nit >= MaxIter
              THEN fpc' = "finish" /\ UNCHANGED <<eta, nit>>
              ELSE /\ eta' = eta - Sign(ev.g)
                   /\ nit' = nit + 1
                   /\ UNCHANGED fpc
    /\ UNCHANGED <<dicts, callerHas, atCall, options, initv, hpdv, summary>>
    /\ UNCHANGED otherThanFit

\* Lines 61-97: the summary of the fit is stored and returned.
fit_return ==
    /\ fpc = "finish"
    /\ summary' = <<Transform(eta), Abs(evals[Len(evals)].g), nit>>
    /\ fpc' = "returned"
    /\ UNCHANGED <<dicts, callerHas, atCall, options, initv, hpdv, eta, nit,
                   evals>>
    /\ UNCHANGED otherThanFit

\* The caller has the result or the error, and keeps its dictionary.
FitCaller ==
    /\ fpc \in {"returned", "raised"}
    /\ fpc' = "idle"
    /\ UNCHANGED <<dicts, callerHas, atCall, options, initv, hpdv, eta, nit,
                   evals, summary>>
    /\ UNCHANGED otherThanFit

NextFit ==
    \/ fit
    \/ fit_again
    \/ minimize
    \/ fit_return
    \/ FitCaller

----------------------------------------------------------------------------
(* Properties of fit *)

\* C5 (as claimed): every evaluation the optimizer makes during fit is the
\* evaluation eta -> (negative log-likelihood, gradient), the gradient being
\* the analytic one with the Jacobian of the transform applied.
C5_AnalyticGradientUsed ==
    \A i \in 1..Len(evals) :
        /\ evals[i].how = "analytic"
        /\ <<evals[i].f, evals[i].g>> = eval_dlog_posterior(evals[i].eta)

\* C10: fit never modifies the dictionary the caller passed: during and after
\* every call it holds what the caller put in it, and every call with it sees
\* the init and hpd settings the caller gave.
C10_CallerOptionsUntouched ==
    callerHas =>
        /\ dicts.caller = atCall
        /\ fpc # "idle" =>
            /\ initv = get(atCall, "init", "fixed")
            /\ hpdv = get(atCall, "hpd", "0.95")

C10_Witness ==
    /\ callerHas
    /\ fpc = "returned"
    /\ DOMAIN atCall = OptionKeys
    /\ atCall["init"] = "prior"
    /\ initv = "prior"
    /\ "init" \notin DOMAIN dicts.local
    /\ dicts.local["disp"] = "False"
    /\ dicts.caller = atCall

----------------------------------------------------------------------------
(* Specifications *)

\* The regressor at rest, on its first model.
IdleRegressor ==
    /\ ss = CHOOSE m \in Models : m.ny = 1 /\ m.Q = 1
    /\ rpc = "idle" /\ call = NoCall /\ ret = NoRet /\ trace = EmptyTrace

InitM == InitModel /\ IdleRegressor /\ InitFit
SpecModel == InitM /\ [][NextModel]_vars

InitR == InitModel /\ InitRegressor /\ InitFit
SpecRegressor == InitR /\ [][NextRegressor]_vars

InitF == InitModel /\ IdleRegressor /\ InitFit
SpecFit == InitF /\ [][NextFit]_vars

====
